---- MODULE Spec2Model ----
(***************************************************************************)
(* The planning / execution / verification / repair graph of               *)
(* backend/app/services/agent.py (AgentService), run on LangGraph with a   *)
(* checkpointer: one checkpointed AgentState per thread, one action per    *)
(* graph node, each action followed by the edge that leaves the node.      *)
(*                                                                         *)
(* The LLM is an input: every structured output it returns is drawn from a *)
(* small catalogue.  Tool handlers are inputs too: each call ends with a   *)
(* payload of its tool or with an error ToolMessage.                       *)
(***************************************************************************)
EXTENDS Integers, Sequences, FiniteSets, TLC

VARIABLES
    checkpoint,   \* thread id -> AgentState held by the checkpointer
    cur,          \* thread id of the turn that is running (or ran last)
    node,         \* the node the running turn executes next
    prev,         \* the node that ran last in the running turn
    request,      \* the request of the running turn: thread_id, query, mentions
    batch,        \* runnable_steps of the last router pass
    turn,         \* number of turns submitted so far
    repairs,      \* number of repair_node runs in the running turn
    verifies,     \* number of verifier_critic_node runs in the running turn
    executed,     \* number of tool_executor runs in the running turn
    failures,     \* number of LLM calls that raised in the running turn
    before,       \* AgentState of the thread before the node that ran last
    started,      \* AgentState of the thread when the running turn was submitted
    concurrent,   \* the request submitted for the thread while the turn was running
    refresh_tokens, \* the refresh_tokens table: jti -> row
    auth_calls    \* the calls of AuthService in progress: call id -> position

vars == <<checkpoint, cur, node, prev, request, batch, turn, repairs, verifies, executed,
          failures, before, started, concurrent, refresh_tokens, auth_calls>>

\* the variables no node of the graph writes
outside == <<started, concurrent, refresh_tokens, auth_calls>>

-----------------------------------------------------------------------------
(* Bounds of the model *)

MaxTurns == 2

\* the number of recorded tool results one verify pass is given
MaxResults == 3

\* the number of tool_executor runs followed from a plan handed to the router
MaxDispatches == 3

\* the number of rows of the refresh_tokens table a login may add to
MaxLogins == 2

-----------------------------------------------------------------------------
(* Values *)

\* Python None where the other values are strings
None == "None"

\* an Optional field of a pydantic model: <<>> is None, <<v>> is the value v
Nothing == <<>>
Some(v) == <<v>>

\* a channel of AgentState that holds a model and was never written
Absent == [absent |-> TRUE]

\* the thread of a request that names one, and the thread of a generated uuid4
ThreadIds == {"t1"}
GeneratedThread == "uuid"
Threads == ThreadIds \cup {GeneratedThread}

\* schemas/agent.py Constraints: preferences is a dict name -> bool
NoPreferences == [k \in {} |-> TRUE]
Constraints(budget, dates, airports, preferences) ==
    [budget_usd |-> budget, dates |-> dates, airports |-> airports,
     preferences |-> preferences]

ConstraintFields == {"budget_usd", "dates", "airports", "preferences"}

\* what Constraints() builds: every field at its default
DefaultConstraints == Constraints(Nothing, Nothing, <<>>, NoPreferences)

\* structured outputs the LLM may return for the Constraints schema
ConstraintCatalogue ==
    { DefaultConstraints,
      Constraints(Some(500), Some([start |-> 1, end |-> 3]), <<"JFK">>,
                  [k \in {"no_overnight_flights"} |-> TRUE]) }

\* schemas/agent.py Plan: id, tool, depends_on
Step(id, tool, deps) == [id |-> id, tool |-> tool, depends_on |-> deps]

\* structured outputs the LLM may return for the PlanList schema
PlanCatalogue ==
    { <<>>,
      <<Step("a", "flights", {}), Step("b", "lodging", {"a"})>>,
      <<Step("c", "events", {}), Step("d", "weather", {"zz"}),
        Step("e", "transit", {"f"}), Step("f", "transit", {"e"})>> }

\* user utterances: the text and the constraint fields the text mentions
Query(text, mentions) == [text |-> text, mentions |-> mentions]
Queries == { Query("make it cheaper", {"budget_usd"}) }

\* schemas/tools.py: the outputs of the tools the verifier parses
\* departure_time and arrival_time are ISO strings; the model keeps the time of
\* day they name, in minutes after midnight
Flight(number, price, dep, arr) ==
    [flight_number |-> number, price |-> price,
     departure_time |-> dep, arrival_time |-> arr]
Lodging(name, rate) == [name |-> name, price_per_night |-> rate]
Event(name, kid, indoor) == [name |-> name, kid_friendly |-> kid, is_indoor |-> indoor]
Daily(day, code) == [forecast_date |-> day, weather_code |-> code]

Payload(tool, items) == [tool |-> tool, items |-> items]
ErrorContent == Payload("Error", <<>>)

\* what a handler of services/tools.py may return for one call
ToolPayloads(tool) ==
    CASE tool = "flights" -> { Payload("flights", <<Flight("F2", 600, 23 * 60 + 10, 7 * 60)>>) }
      [] tool = "lodging" -> { Payload("lodging", <<Lodging("L1", 100)>>) }
      [] tool = "events"  -> { Payload("events", <<Event("E1", FALSE, FALSE)>>) }
      [] tool = "weather" -> { Payload("weather", <<Daily(1, 61)>>) }
      [] tool = "transit" -> { Payload("transit", <<>>) }
      [] OTHER -> {}

-----------------------------------------------------------------------------
(* Messages and the reducers of AgentState *)

\* a langchain message; id 0 is a message that has no id yet
Msg(type, name, tool_call_id, status, content, tool_calls) ==
    [id |-> 0, type |-> type, name |-> name, tool_call_id |-> tool_call_id,
     status |-> status, content |-> content, tool_calls |-> tool_calls]

SystemMessage == Msg("system", "", "", "", "SYSTEM_MESSAGE", <<>>)
HumanMessage(content) == Msg("human", "", "", "", content, <<>>)
AIMessage(content, tool_calls) == Msg("ai", "", "", "", content, tool_calls)
ToolMessage(name, tool_call_id, status, content) ==
    Msg("tool", name, tool_call_id, status, content, <<>>)

\* langgraph add_messages: a message whose id is already in the list replaces
\* that message in place, any other message is appended under a fresh id.
\* Messages are never removed, so the fresh id is the position in the list.
RECURSIVE add_messages(_, _)
add_messages(left, right) ==
    IF right = <<>> THEN left
    ELSE LET m == Head(right)
             merged == IF m.id # 0 /\ m.id <= Len(left)
                       THEN [left EXCEPT ![m.id] = m]
                       ELSE Append(left, [m EXCEPT !.id = Len(left) + 1])
         IN  add_messages(merged, Tail(right))

\* the keys of AgentState annotated with operator.add
AddKeys == {"plan", "citations", "tool_calls", "violations", "decisions"}

\* the reducer of one key: old channel value, value written by a node
Reducer(k, old, new) ==
    IF k = "messages" THEN add_messages(old, new)
    ELSE IF k \in AddKeys THEN old \o new
    ELSE new

\* a node's return value written to the channels: every key of the returned
\* dict goes through its reducer
ApplyWrites(state, update) ==
    [k \in DOMAIN state |->
        IF k \in DOMAIN update THEN Reducer(k, state[k], update[k]) ELSE state[k]]

\* the channels of a thread that has no checkpoint
NoCheckpoint ==
    [messages |-> <<>>, constraints |-> Absent, plan |-> <<>>, working_set |-> Absent,
     citations |-> <<>>, tool_calls |-> <<>>, violations |-> <<>>,
     budget_counters |-> <<>>, answer_markdown |-> None, itinerary |-> None,
     decisions |-> <<>>, done |-> FALSE, is_refinement |-> FALSE]

-----------------------------------------------------------------------------
(* The verifier's rules (verifier_critic_node) *)

\* schemas/agent.py Violation: the reason string, by the parts that vary in it
Violation(rule, subject, total, limit) ==
    [rule |-> rule, subject |-> subject, total |-> total, limit |-> limit]

RefinementViolation == Violation("refinement", "", 0, 0)

RECURSIVE Flatten(_)
Flatten(seqs) == IF seqs = <<>> THEN <<>> ELSE Head(seqs) \o Flatten(Tail(seqs))

\* sum() over a list of numbers
RECURSIVE Sum(_)
Sum(seq) == IF seq = <<>> THEN 0 ELSE Head(seq) + Sum(Tail(seq))

IsToolMessage(m) == m.type = "tool"

\* the tools whose output verifier_critic_node parses (model_map)
ParsedTools == {"flights", "lodging", "events", "weather"}

\* model_validate_json succeeds on the JSON a handler of that tool returned,
\* and raises on anything else (the text of an error ToolMessage)
ParsesAs(m, tool) == m.name = tool /\ m.content.tool = tool

\* parsed_tool_outputs[tool], flattened: the items of every tool message of
\* that tool that parsed, in the order of the messages
ParsedItems(messages, tool) ==
    LET ItemsOf(m) == IF IsToolMessage(m) /\ ParsesAs(m, tool) THEN m.content.items ELSE <<>>
    IN  Flatten([i \in 1..Len(messages) |-> ItemsOf(messages[i])])

\* `tool in parsed_tool_outputs`: some message of the tool parsed
HasParsed(messages, tool) ==
    tool \in ParsedTools /\ \E i \in 1..Len(messages) :
        IsToolMessage(messages[i]) /\ ParsesAs(messages[i], tool)

\* `constraints and constraints.budget_usd`
HasBudget(constraints) ==
    /\ constraints # Absent
    /\ constraints.budget_usd # Nothing
    /\ constraints.budget_usd[1] # 0

\* `constraints and constraints.preferences and constraints.preferences.get(name)`
PreferenceSet(constraints, name) ==
    /\ constraints # Absent
    /\ name \in DOMAIN constraints.preferences
    /\ constraints.preferences[name]

\* the weather codes the verifier takes for precipitation
RainCodes == {51, 53, 55, 61, 63, 65, 80, 81, 82}

TotalCost(constraints, messages) ==
    LET flights == ParsedItems(messages, "flights")
        lodging == ParsedItems(messages, "lodging")
        num_days == constraints.dates[1].end - constraints.dates[1].start
    IN  Sum([i \in 1..Len(flights) |-> flights[i].price])
        + IF HasParsed(messages, "lodging") /\ constraints.dates # Nothing
          THEN Sum([i \in 1..Len(lodging) |-> lodging[i].price_per_night * num_days])
          ELSE 0

\* 1. Budget check
BudgetViolations(constraints, messages) ==
    IF HasBudget(constraints)
       /\ TotalCost(constraints, messages) > constraints.budget_usd[1]
    THEN <<Violation("budget", "", TotalCost(constraints, messages),
                     constraints.budget_usd[1])>>
    ELSE <<>>

\* datetime.fromisoformat(t).time().hour
HourOf(t) == t \div 60

\* 2. Feasibility check: no overnight flights
OvernightViolations(constraints, messages) ==
    LET Check(f) == IF HourOf(f.departure_time) > 22 \/ HourOf(f.arrival_time) < 6
                    THEN <<Violation("overnight", f.flight_number, 0, 0)>>
                    ELSE <<>>
    IN  IF PreferenceSet(constraints, "no_overnight_flights")
        THEN LET items == ParsedItems(messages, "flights")
             IN  Flatten([i \in 1..Len(items) |-> Check(items[i])])
        ELSE <<>>

\* 3. Weather sensitivity
RainyDays(messages) ==
    LET daily == ParsedItems(messages, "weather")
    IN  { daily[i].forecast_date : i \in { j \in 1..Len(daily) :
                                            daily[j].weather_code \in RainCodes } }

WeatherViolations(messages) ==
    LET Check(e) == IF ~e.is_indoor THEN <<Violation("weather", e.name, 0, 0)>> ELSE <<>>
    IN  IF RainyDays(messages) # {}
        THEN LET items == ParsedItems(messages, "events")
             IN  Flatten([i \in 1..Len(items) |-> Check(items[i])])
        ELSE <<>>

PreferenceViolations_IgnoresValue(constraints, messages) ==
    LET Check(e) == IF ~e.kid_friendly
                    THEN <<Violation("kid_friendly", e.name, 0, 0)>>
                    ELSE <<>>
    IN  IF constraints # Absent /\ "kid_friendly" \in DOMAIN constraints.preferences
        THEN LET items == ParsedItems(messages, "events")
             IN  Flatten([i \in 1..Len(items) |-> Check(items[i])])
        ELSE <<>>

\* 4. Preference fit: kid-friendly
PreferenceViolations(constraints, messages) ==
    LET Check(e) == IF ~e.kid_friendly
                    THEN <<Violation("kid_friendly", e.name, 0, 0)>>
                    ELSE <<>>
    IN  IF PreferenceSet(constraints, "kid_friendly")
        THEN LET items == ParsedItems(messages, "events")
             IN  Flatten([i \in 1..Len(items) |-> Check(items[i])])
        ELSE <<>>

ComputeViolations_ShortCircuit(constraints, messages) ==
    IF BudgetViolations(constraints, messages) # <<>>
    THEN BudgetViolations(constraints, messages)
    ELSE OvernightViolations(constraints, messages)
         \o WeatherViolations(messages)
         \o PreferenceViolations(constraints, messages)

\* the list verifier_critic_node builds in state["violations"]
ComputeViolations(constraints, messages) ==
    BudgetViolations(constraints, messages)
    \o OvernightViolations(constraints, messages)
    \o WeatherViolations(messages)
    \o PreferenceViolations(constraints, messages)

-----------------------------------------------------------------------------
(* The graph: nodes and edges (add_nodes_and_edges) *)

LLMNodes == {"constraint_extraction_node", "refinement_node", "plan_node",
             "repair_node", "synthesizer_node"}

\* the state of the thread the running turn works on
State == checkpoint[cur]

\* conditional edge out of START
is_refinement_check_ToExtraction(state) ==
    "constraint_extraction_node"

is_refinement_check(state) ==
    IF state.is_refinement THEN "refinement_node" ELSE "constraint_extraction_node"

\* conditional edge out of verifier_critic_node
should_repair(state) ==
    IF state.violations # <<>> THEN "repair_node" ELSE "router"

\* conditional edge out of router: tools_condition looks at the last message
\* and goes to the tools when it is an AIMessage that carries tool calls
tools_condition(state) ==
    LET last == state.messages[Len(state.messages)]
    IN  IF state.messages # <<>> /\ last.type = "ai" /\ last.tool_calls # <<>>
        THEN "tool_executor"
        ELSE "synthesizer_node"

\* the unconditional edges
AfterRefinement_ToRouter == "router"
AfterRefinement == "verifier_critic_node"
AfterConstraintExtraction == "plan_node"
AfterPlan == "router"
AfterToolExecutor_ToRouter == "router"
AfterToolExecutor == "verifier_critic_node"
AfterRepair == "router"
AfterSynthesizer == "responder_node"
AfterResponder == "END"

\* one superstep: the node's return value goes through the reducers and the
\* checkpointer saves the result
Superstep(name, update, next) ==
    /\ checkpoint' = [checkpoint EXCEPT ![cur] = ApplyWrites(State, update)]
    /\ before' = State
    /\ prev' = name
    /\ node' = next

-----------------------------------------------------------------------------
(* plan_itinerary: a request starts a turn *)

NoRequest == [thread_id |-> None, query |-> Query("", {}), is_refinement |-> FALSE]

\* no request was submitted while the turn was running
NoConcurrent == [absent |-> TRUE]

\* the input of a turn that is no refinement
NewPlanInput(q) ==
    [messages |-> <<SystemMessage, HumanMessage(q.text)>>,
     working_set |-> [knowledge_item_ids |-> <<>>, query |-> q.text],
     constraints |-> DefaultConstraints,
     plan |-> <<>>, citations |-> <<>>, tool_calls |-> <<>>, violations |-> <<>>,
     budget_counters |-> <<>>, answer_markdown |-> None, itinerary |-> None,
     decisions |-> <<>>, done |-> FALSE, is_refinement |-> FALSE]

\* the input of a refinement
RefinementInput(q) ==
    [messages |-> <<HumanMessage(q.text)>>, is_refinement |-> TRUE]

IsRefinement_AnyCheckpoint(thread_id, existing) ==
    thread_id # None /\ existing # NoCheckpoint

\* `existing_state and existing_state.values.get("itinerary")`
IsRefinement(thread_id, existing) ==
    thread_id # None /\ existing.itinerary # None

PlanItinerary(thread_id, q) ==
    /\ node \in {"idle", "END", "failed"}
    /\ turn < MaxTurns
    /\ LET thread == IF thread_id # None THEN thread_id ELSE GeneratedThread
           \* a generated uuid4 names a thread that has no checkpoint; the id
           \* never leaves plan_itinerary (AgentResponse has no thread_id), so
           \* the checkpoint of an earlier generated thread is dropped here
           existing == IF thread_id # None THEN checkpoint[thread] ELSE NoCheckpoint
           is_refinement == IsRefinement(thread_id, existing)
           input == IF is_refinement THEN RefinementInput(q) ELSE NewPlanInput(q)
           state == ApplyWrites(existing, input)
       IN  /\ checkpoint' = [t \in Threads |->
                                 IF t = thread THEN state
                                 ELSE IF t = GeneratedThread THEN NoCheckpoint
                                 ELSE checkpoint[t]]
           /\ cur' = thread
           /\ request' = [thread_id |-> thread_id, query |-> q,
                          is_refinement |-> is_refinement]
           /\ node' = is_refinement_check(state)
           /\ before' = existing
           /\ started' = existing
    /\ prev' = "START"
    /\ batch' = <<>>
    /\ turn' = turn + 1
    /\ repairs' = 0
    /\ verifies' = 0
    /\ executed' = 0
    /\ failures' = 0
    /\ concurrent' = NoConcurrent
    /\ UNCHANGED <<refresh_tokens, auth_calls>>

-----------------------------------------------------------------------------
(* The nodes *)

constraint_extraction_node ==
    /\ node = "constraint_extraction_node"
    /\ \E constraints \in ConstraintCatalogue :
          Superstep("constraint_extraction_node",
                    [State EXCEPT !.constraints = constraints],
                    AfterConstraintExtraction)
    /\ UNCHANGED <<cur, request, batch, turn, repairs, verifies, executed, failures, outside>>

refinement_node ==
    /\ node = "refinement_node"
    /\ IF ~State.is_refinement
       THEN Superstep("refinement_node", State, AfterRefinement)
       ELSE \E updated_constraints \in ConstraintCatalogue :
               Superstep("refinement_node",
                         [State EXCEPT !.constraints = updated_constraints,
                                       !.violations = <<RefinementViolation>>],
                         AfterRefinement)
    /\ UNCHANGED <<cur, request, batch, turn, repairs, verifies, executed, failures, outside>>

plan_node ==
    /\ node = "plan_node"
    /\ \E plans \in PlanCatalogue :
          Superstep("plan_node",
                    [State EXCEPT !.plan = plans,
                                  !.messages = <<HumanMessage("PLAN_PROMPT"),
                                                 AIMessage("Generated plan", <<>>)>>],
                    AfterPlan)
    /\ UNCHANGED <<cur, request, batch, turn, repairs, verifies, executed, failures, outside>>

\* the ids of the steps a ToolMessage answers
completed_step_ids(state) ==
    { state.messages[i].tool_call_id : i \in { j \in 1..Len(state.messages) :
          /\ IsToolMessage(state.messages[j])
          /\ state.messages[j].tool_call_id # "" } }

runnable_steps(state) ==
    LET completed == completed_step_ids(state)
        Runnable(step) ==
            /\ step.id \notin completed
            /\ step.depends_on = {} \/ step.depends_on \subseteq completed
    IN  SelectSeq(state.plan, Runnable)

ToolCall(step) == [name |-> step.tool, id |-> step.id]

ToolCallsOf(steps) == [i \in 1..Len(steps) |-> ToolCall(steps[i])]

router_node ==
    /\ node = "router"
    /\ LET runnable == runnable_steps(State)
           update == IF runnable = <<>>
                     THEN State
                     ELSE [messages |-> <<AIMessage("", ToolCallsOf(runnable))>>]
       IN  /\ Superstep("router", update, tools_condition(ApplyWrites(State, update)))
           /\ batch' = runnable
    /\ UNCHANGED <<cur, request, turn, repairs, verifies, executed, failures, outside>>

\* the contents a call of the tool may end with: a payload of the handler, or
\* the error text of a call that raised or named no registered tool
ToolOutcomes(tool) == ToolPayloads(tool) \cup {ErrorContent}

AllOutcomes == UNION { ToolOutcomes(tool) : tool \in ParsedTools \cup {"transit"} }

ToolResult_Pending(call, content) ==
    ToolMessage(call.name, call.id, "pending", content)

ToolResult(call, content) ==
    ToolMessage(call.name, call.id,
                IF content = ErrorContent THEN "error" ELSE "success", content)

\* ToolNode: one ToolMessage per tool call of the last AIMessage, in call order.
\* Calls of one batch that carry the same step id are the same call of the same
\* handler with the same arguments, and end the same way.
tool_executor ==
    /\ node = "tool_executor"
    /\ LET calls == State.messages[Len(State.messages)].tool_calls
           ids == { calls[i].id : i \in 1..Len(calls) }
       IN  \E contents \in [ids -> AllOutcomes] :
              /\ \A i \in 1..Len(calls) : contents[calls[i].id] \in ToolOutcomes(calls[i].name)
              /\ Superstep("tool_executor",
                           [messages |-> [i \in 1..Len(calls) |->
                                             ToolResult(calls[i], contents[calls[i].id])]],
                           AfterToolExecutor)
    /\ executed' = executed + 1
    /\ UNCHANGED <<cur, request, batch, turn, repairs, verifies, failures, outside>>

\* what verifier_critic_node returns: the state it was given, with the list it
\* built under "violations"
verifier_return(state) ==
    [state EXCEPT !.violations = ComputeViolations(state.constraints, state.messages)]

verifier_critic_node ==
    /\ node = "verifier_critic_node"
    /\ Superstep("verifier_critic_node", verifier_return(State),
                 should_repair(ApplyWrites(State, verifier_return(State))))
    /\ verifies' = verifies + 1
    /\ UNCHANGED <<cur, request, batch, turn, repairs, executed, failures, outside>>

\* the messages repair_node keeps: no ToolMessage, no AIMessage that called tools
messages_for_repair(messages) ==
    LET Kept(m) == ~IsToolMessage(m) /\ ~(m.type = "ai" /\ m.tool_calls # <<>>)
    IN  SelectSeq(messages, Kept)

repair_node ==
    /\ node = "repair_node"
    /\ \E plans \in PlanCatalogue :
          Superstep("repair_node",
                    [State EXCEPT !.violations = <<>>,
                                  !.plan = plans,
                                  !.messages = messages_for_repair(State.messages)
                                        \o <<HumanMessage("REPAIR_PROMPT"),
                                             AIMessage("Repaired plan", <<>>)>>],
                    AfterRepair)
    /\ repairs' = repairs + 1
    /\ UNCHANGED <<cur, request, batch, turn, verifies, executed, failures, outside>>

\* structured outputs the LLM may return for the SynthesisResult schema
SynthesisCatalogue ==
    { [answer_markdown |-> "answer", itinerary |-> "itinerary", decisions |-> <<"decision">>] }

synthesizer_node ==
    /\ node = "synthesizer_node"
    /\ \E response \in SynthesisCatalogue :
          Superstep("synthesizer_node",
                    [State EXCEPT !.answer_markdown = response.answer_markdown,
                                  !.itinerary = response.itinerary,
                                  !.decisions = response.decisions],
                    AfterSynthesizer)
    /\ UNCHANGED <<cur, request, batch, turn, repairs, verifies, executed, failures, outside>>

responder_node ==
    /\ node = "responder_node"
    /\ Superstep("responder_node",
                 [messages |-> <<AIMessage(State.answer_markdown, <<>>)>>],
                 AfterResponder)
    /\ UNCHANGED <<cur, request, batch, turn, repairs, verifies, executed, failures, outside>>

\* plan_itinerary after astream: the per-tool summary built from the
\* tool_calls channel of the final state, one entry per tool name
tool_usage(final_state) ==
    LET tool_calls == final_state.tool_calls
        OfTool(name) == SelectSeq(tool_calls, LAMBDA tc : tc.name = name)
    IN  { [name |-> name,
           count |-> Len(OfTool(name)),
           total_ms |-> Sum([i \in 1..Len(OfTool(name)) |-> OfTool(name)[i].time_ms])] :
          name \in { tool_calls[i].name : i \in 1..Len(tool_calls) } }

\* the AgentResponse plan_itinerary returns for the final state
AgentResponse(final_state) ==
    [answer_markdown |-> final_state.answer_markdown,
     itinerary |-> final_state.itinerary,
     citations |-> final_state.citations,
     tools_used |-> tool_usage(final_state),
     decisions |-> final_state.decisions]

\* the LLM call of a node raises: the superstep writes nothing, the exception
\* leaves astream and plan_itinerary, the route answers 500
NodeRaises ==
    /\ node \in LLMNodes
    /\ node' = "failed"
    /\ failures' = failures + 1
    /\ UNCHANGED <<checkpoint, cur, prev, request, batch, turn, repairs, verifies, executed, before,
                   outside>>

-----------------------------------------------------------------------------
(* AuthService: the refresh_tokens table and the calls that work on it *)

Users == {"u1", "u2"}

\* the jti values _create_token_response draws (uuid4), in the order drawn
Jtis == {"j1", "j2", "j3", "j4"}

\* models/refresh_token.py RefreshToken: a row of the table, or no row
NoRow == [absent |-> TRUE]
Row(user_id, is_revoked) == [user_id |-> user_id, is_revoked |-> is_revoked]

CallIds == {1, 2}

\* a call id no request uses
IdleCall == [pc |-> "idle"]

-----------------------------------------------------------------------------

Init ==
    /\ checkpoint = [t \in Threads |-> NoCheckpoint]
    /\ cur = GeneratedThread
    /\ node = "idle"
    /\ prev = "idle"
    /\ request = NoRequest
    /\ batch = <<>>
    /\ turn = 0
    /\ repairs = 0
    /\ verifies = 0
    /\ executed = 0
    /\ failures = 0
    /\ before = NoCheckpoint
    /\ started = NoCheckpoint
    /\ concurrent = NoConcurrent
    /\ refresh_tokens = [j \in Jtis |-> NoRow]
    /\ auth_calls = [c \in CallIds |-> IdleCall]

Next ==
    \/ \E thread_id \in ThreadIds \cup {None}, q \in Queries : PlanItinerary(thread_id, q)
    \/ constraint_extraction_node
    \/ refinement_node
    \/ plan_node
    \/ router_node
    \/ tool_executor
    \/ verifier_critic_node
    \/ repair_node
    \/ synthesizer_node
    \/ responder_node
    \/ NodeRaises

Spec == Init /\ [][Next]_vars

-----------------------------------------------------------------------------
(* One verify pass over given inputs: the constraint set and the recorded    *)
(* tool results are drawn from bounded sets, then verifier_critic_node runs. *)

\* constraint sets a verify pass may be given
VerifierBudgets == {Nothing, Some(0), Some(500)}
VerifierDates == {Some([start |-> 1, end |-> 3])}
VerifierPreferences ==
    { NoPreferences,
      [k \in {"no_overnight_flights"} |-> TRUE],
      [k \in {"kid_friendly"} |-> TRUE],
      [k \in {"kid_friendly"} |-> FALSE],
      [k \in {"no_overnight_flights", "kid_friendly"} |-> TRUE] }

VerifierConstraints ==
    { Constraints(b, d, <<>>, p) :
        b \in VerifierBudgets, d \in VerifierDates, p \in VerifierPreferences }

\* tool results a verify pass may find recorded: what ToolNode appended for
\* one call of flights, lodging, events or weather
VerifierResults ==
    { ToolMessage("flights", "f1", "success",
          Payload("flights", <<Flight("F1", 600, 23 * 60 + 10, 7 * 60)>>)),
      ToolMessage("flights", "f2", "success",
          Payload("flights", <<Flight("F2", 100, 22 * 60 + 30, 12 * 60),
                               Flight("F3", 200, 10 * 60, 5 * 60 + 30)>>)),
      ToolMessage("flights", "f3", "error", ErrorContent),
      ToolMessage("lodging", "l1", "success", Payload("lodging", <<Lodging("L1", 100)>>)),
      ToolMessage("events", "e1", "success",
          Payload("events", <<Event("Park", FALSE, FALSE), Event("Museum", TRUE, TRUE)>>)),
      ToolMessage("events", "e2", "success",
          Payload("events", <<Event("Zoo", TRUE, FALSE)>>)),
      ToolMessage("weather", "w1", "success",
          Payload("weather", <<Daily(1, 61), Daily(2, 0)>>)) }

ResultLists == UNION { [1..n -> VerifierResults] : n \in 0..MaxResults }

\* the state a verify pass starts from: the input of the turn, the extracted
\* constraints, the AIMessage of the router with the ToolMessages that answer
\* it, and the violations recorded so far
VerifierState(constraints, results, violations) ==
    LET input == ApplyWrites(NoCheckpoint, NewPlanInput(CHOOSE q \in Queries : TRUE))
        calls == [i \in 1..Len(results) |->
                     [name |-> results[i].name, id |-> results[i].tool_call_id]]
        recorded == IF results = <<>> THEN <<>> ELSE <<AIMessage("", calls)>> \o results
    IN  [input EXCEPT !.constraints = constraints,
                      !.messages = add_messages(@, recorded),
                      !.violations = violations]

VerifierInit ==
    /\ \E constraints \in VerifierConstraints, results \in ResultLists,
          violations \in {<<>>, <<RefinementViolation>>} :
          /\ checkpoint = [t \in Threads |->
                              IF t = GeneratedThread
                              THEN VerifierState(constraints, results, violations)
                              ELSE NoCheckpoint]
          /\ before = VerifierState(constraints, <<>>, violations)
    /\ cur = GeneratedThread
    /\ node = "verifier_critic_node"
    /\ prev = "tool_executor"
    /\ request = NoRequest
    /\ batch = <<>>
    /\ turn = 1
    /\ repairs = 0
    /\ verifies = 0
    /\ executed = 1
    /\ failures = 0
    /\ started = NoCheckpoint
    /\ concurrent = NoConcurrent
    /\ refresh_tokens = [j \in Jtis |-> NoRow]
    /\ auth_calls = [c \in CallIds |-> IdleCall]

VerifierNext == verifier_critic_node

VerifierSpec == VerifierInit /\ [][VerifierNext]_vars

-----------------------------------------------------------------------------
(* Two requests for one thread: plan_itinerary takes no lock, so a request   *)
(* that names the thread of a running turn is served at once, by a graph of  *)
(* its own over the same checkpointer.                                       *)

\* plan_itinerary of a second request, submitted while the turn of the thread
\* is at a node that writes its checkpoint afterwards: it reads the thread's
\* latest checkpoint, decides is_refinement from it and starts its graph,
\* which writes the input over what it read into channels of its own.  The
\* model follows the second request as far as its first node, whose LLM call
\* raises (NodeRaises); the running turn goes on in its own channels and its
\* next checkpoint is the thread's latest again.
ConcurrentRequest(q) ==
    /\ node \in {"router", "tool_executor", "verifier_critic_node", "responder_node"}
    /\ request.thread_id # None
    /\ concurrent = NoConcurrent
    /\ LET existing == checkpoint[cur]
           is_refinement == IsRefinement(request.thread_id, existing)
           input == IF is_refinement THEN RefinementInput(q) ELSE NewPlanInput(q)
       IN  concurrent' = [thread_id |-> request.thread_id, query |-> q,
                          during |-> node, existing |-> existing,
                          is_refinement |-> is_refinement,
                          channels |-> ApplyWrites(existing, input),
                          node |-> "failed"]
    /\ UNCHANGED <<checkpoint, cur, node, prev, request, batch, turn, repairs, verifies,
                   executed, failures, before, started, refresh_tokens, auth_calls>>

ConcurrentNext ==
    \/ Next
    \/ \E q \in Queries : ConcurrentRequest(q)

ConcurrentSpec == Init /\ [][ConcurrentNext]_vars

-----------------------------------------------------------------------------
(* The router loop over plans whose steps the LLM gave the empty string as   *)
(* id (Plan.id is any str, and plan_node stores the steps unvalidated).      *)

EmptyIdPlans ==
    { <<Step("", "transit", {})>>,
      <<Step("", "flights", {}), Step("g", "lodging", {""})>>,
      <<Step("g", "events", {}), Step("", "weather", {"g"})>> }

\* the state plan_node hands to the router in the first turn of a thread
PlannedState(constraints, plans) ==
    LET input == ApplyWrites(NoCheckpoint, NewPlanInput(CHOOSE q \in Queries : TRUE))
    IN  [input EXCEPT !.constraints = constraints,
                      !.plan = plans,
                      !.messages = add_messages(@, <<HumanMessage("PLAN_PROMPT"),
                                                     AIMessage("Generated plan", <<>>)>>)]

EmptyIdInit ==
    /\ \E constraints \in ConstraintCatalogue, plans \in EmptyIdPlans :
          /\ checkpoint = [t \in Threads |->
                              IF t = GeneratedThread
                              THEN PlannedState(constraints, plans)
                              ELSE NoCheckpoint]
          /\ before = [PlannedState(constraints, plans) EXCEPT !.plan = <<>>]
    /\ cur = GeneratedThread
    /\ node = "router"
    /\ prev = "plan_node"
    /\ request = NoRequest
    /\ batch = <<>>
    /\ turn = 1
    /\ repairs = 0
    /\ verifies = 0
    /\ executed = 0
    /\ failures = 0
    /\ started = NoCheckpoint
    /\ concurrent = NoConcurrent
    /\ refresh_tokens = [j \in Jtis |-> NoRow]
    /\ auth_calls = [c \in CallIds |-> IdleCall]

EmptyIdNext ==
    \/ router_node
    \/ (executed < MaxDispatches /\ tool_executor)
    \/ verifier_critic_node

EmptyIdSpec == EmptyIdInit /\ [][EmptyIdNext]_vars

-----------------------------------------------------------------------------
(* AuthService.login, refresh_access_token and logout.  Every await of      *)
(* refresh_access_token is a point where another call may run; a write to   *)
(* the table is seen by every later read.                                   *)

graph == <<checkpoint, cur, node, prev, request, batch, turn, repairs, verifies,
           executed, failures, before, started, concurrent>>

IssuedJtis == { j \in Jtis : refresh_tokens[j] # NoRow }

\* RefreshTokenRepository.create_refresh_token
create_refresh_token(table, user_id, jti) ==
    [table EXCEPT ![jti] = Row(user_id, FALSE)]

\* RefreshTokenRepository.revoke_refresh_token: an UPDATE on the jti alone
revoke_refresh_token(table, jti) ==
    [j \in Jtis |-> IF j = jti /\ table[j] # NoRow
                    THEN Row(table[j].user_id, TRUE)
                    ELSE table[j]]

\* RefreshTokenRepository.revoke_all_user_tokens
revoke_all_user_tokens(table, user_id) ==
    [j \in Jtis |-> IF table[j] # NoRow /\ table[j].user_id = user_id
                       /\ ~table[j].is_revoked
                    THEN Row(user_id, TRUE)
                    ELSE table[j]]

\* login with valid credentials: _create_token_response stores a new token
Login(user) ==
    /\ Cardinality(IssuedJtis) < MaxLogins
    /\ \E jti \in Jtis \ IssuedJtis :
          refresh_tokens' = create_refresh_token(refresh_tokens, user, jti)
    /\ UNCHANGED <<auth_calls, graph>>

\* refresh_access_token up to the await of get_user_by_id: the token decodes
\* (it was signed by this service), the stored row is read and checked
RefreshRead(c, jti) ==
    /\ auth_calls[c] = IdleCall
    /\ jti \in IssuedJtis
    /\ LET stored_token == refresh_tokens[jti]
           user_id == stored_token.user_id
       IN  IF stored_token = NoRow \/ stored_token.is_revoked
           THEN /\ auth_calls' = [auth_calls EXCEPT ![c] =
                                     [pc |-> "rejected", jti |-> jti, user_id |-> user_id,
                                      was_revoked |-> stored_token.is_revoked]]
                /\ UNCHANGED refresh_tokens
           ELSE IF stored_token.is_revoked
           THEN /\ refresh_tokens' = revoke_all_user_tokens(refresh_tokens, user_id)
                /\ auth_calls' = [auth_calls EXCEPT ![c] =
                                     [pc |-> "rejected", jti |-> jti, user_id |-> user_id,
                                      was_revoked |-> TRUE]]
           ELSE /\ auth_calls' = [auth_calls EXCEPT ![c] =
                                     [pc |-> "verified", jti |-> jti, user_id |-> user_id,
                                      was_revoked |-> FALSE]]
                /\ UNCHANGED refresh_tokens
    /\ UNCHANGED graph

\* refresh_access_token after get_user_by_id returned: revoke_refresh_token
RefreshRevoke(c) ==
    /\ auth_calls[c].pc = "verified"
    /\ refresh_tokens' = revoke_refresh_token(refresh_tokens, auth_calls[c].jti)
    /\ auth_calls' = [auth_calls EXCEPT ![c].pc = "revoked"]
    /\ UNCHANGED graph

\* refresh_access_token's return: _create_token_response issues new tokens
RefreshIssue(c) ==
    /\ auth_calls[c].pc = "revoked"
    /\ \E jti \in Jtis \ IssuedJtis :
          refresh_tokens' = create_refresh_token(refresh_tokens, auth_calls[c].user_id, jti)
    /\ auth_calls' = [auth_calls EXCEPT ![c].pc = "issued"]
    /\ UNCHANGED graph

Logout(jti) ==
    /\ jti \in IssuedJtis
    /\ refresh_tokens' = revoke_refresh_token(refresh_tokens, jti)
    /\ UNCHANGED <<auth_calls, graph>>

AuthNext ==
    \/ \E user \in Users : Login(user)
    \/ \E c \in CallIds, jti \in Jtis : RefreshRead(c, jti)
    \/ \E c \in CallIds : RefreshRevoke(c)
    \/ \E c \in CallIds : RefreshIssue(c)
    \/ \E jti \in Jtis : Logout(jti)

AuthSpec == Init /\ [][AuthNext]_vars

-----------------------------------------------------------------------------
(* Claims *)

\* the configured maximum of repair attempts the design names (3)
MaxRepairAttempts == 3

\* the step ids that have a successful tool result
SucceededIds(state) ==
    { state.messages[i].tool_call_id : i \in { j \in 1..Len(state.messages) :
          /\ IsToolMessage(state.messages[j])
          /\ state.messages[j].status = "success" } }

InBatch(step) == \E i \in 1..Len(batch) : batch[i] = step

\* C1: every step the router dispatches has all of its depends_on among the
\* steps that already have a successful tool result.
C1_NoPrematureExecution ==
    prev = "router" =>
        \A i \in 1..Len(batch) : batch[i].depends_on \subseteq SucceededIds(before)

\* C2: when the router finds no runnable step while a step of the plan has
\* no successful record, the next node is repair, never synthesize.
C2_StuckPlanGoesToRepair ==
    (/\ prev = "router"
     /\ batch = <<>>
     /\ \E i \in 1..Len(before.plan) : before.plan[i].id \notin SucceededIds(before))
    => node = "repair_node"

\* C3: the violation list is empty right after repair, and right after verify
\* it is exactly the list that verify pass computed.
C3_ViolationsReplaced ==
    /\ prev = "repair_node" => State.violations = <<>>
    /\ prev = "verifier_critic_node" =>
          State.violations = ComputeViolations(State.constraints, State.messages)

\* C4: the repair node runs at most MaxRepairAttempts times in one turn, and a
\* turn that ends has a final itinerary.
C4_RepairBounded ==
    /\ repairs <= MaxRepairAttempts
    /\ node = "END" => State.itinerary # None

\* C5: the verify -> repair -> router -> tool_execution loop is cut: once the
\* turn has repaired MaxRepairAttempts times, verify does not go to repair
\* again, so the turn goes on to synthesize, respond and end.
C5_LoopIsCut ==
    [][(node = "verifier_critic_node" /\ repairs >= MaxRepairAttempts)
          => node' # "repair_node"]_vars

\* C6: a refinement turn that ends has run verify at least once, also when it
\* executed no tool.
C6_RefinementVerifies ==
    (request.is_refinement /\ node = "END") => verifies >= 1

C6_Witness ==
    request.is_refinement /\ node = "END" /\ executed = 0 /\ verifies >= 1

\* C7: every step of the plan that has no successful record and whose
\* depends_on all have successful records is dispatched by the next router pass.
C7_RunnableIsDispatched ==
    prev = "router" =>
        \A i \in 1..Len(before.plan) :
            (/\ before.plan[i].id \notin SucceededIds(before)
             /\ before.plan[i].depends_on \subseteq SucceededIds(before))
            => InBatch(before.plan[i])

\* C8: verify run again right after verify, with no new tool result, leaves
\* the same violation list.
C8_VerifyIdempotent ==
    prev = "verifier_critic_node" =>
        ApplyWrites(State, verifier_return(State)).violations = State.violations

\* C9: a turn goes to refinement exactly when the request names a thread whose
\* checkpoint exists and holds a final itinerary; every other turn goes to
\* constraint_extraction.
C9_RefinementRouting ==
    (prev = "START" /\ node # "failed") =>
        /\ node \in {"refinement_node", "constraint_extraction_node"}
        /\ node = "refinement_node" <=>
              (/\ request.thread_id # None
               /\ before # NoCheckpoint
               /\ before.itinerary # None)

C9_Witness ==
    /\ prev = "START"
    /\ node = "refinement_node"
    /\ request.thread_id = "t1"
    /\ before.itinerary # None

\* C10: after the refinement node every constraint field the new utterance
\* does not mention has the value the previous turn stored.
C10_UnmentionedPreserved ==
    (prev = "refinement_node" /\ request.is_refinement) =>
        \A f \in ConstraintFields \ request.query.mentions :
            State.constraints[f] = before.constraints[f]

\* C12: a turn that reached responder_node and ended has left done = TRUE in
\* the state of its thread.
C12_RespondMarksDone ==
    (node = "END" /\ prev = "responder_node") => State.done = TRUE

\* the messages the node that ran last appended
NewMessages == SubSeq(State.messages, Len(before.messages) + 1, Len(State.messages))

NotFailed(m) == ~(IsToolMessage(m) /\ m.status = "error")

\* C18: after a batch of tool calls, whatever subset of them failed, the turn
\* goes on to verify, every dispatched step has its tool result recorded
\* (status error for a failed one), and the failed results add nothing to the
\* violations verify computes.
C18_FailedCallsDoNotAbort ==
    prev = "tool_executor" =>
        /\ node = "verifier_critic_node"
        /\ \A i \in 1..Len(batch) :
              \E j \in 1..Len(NewMessages) :
                  /\ IsToolMessage(NewMessages[j])
                  /\ NewMessages[j].tool_call_id = batch[i].id
                  /\ NewMessages[j].status \in {"success", "error"}
        /\ ComputeViolations(State.constraints, State.messages)
              = ComputeViolations(State.constraints, SelectSeq(State.messages, NotFailed))

C18_Witness ==
    /\ prev = "tool_executor"
    /\ node = "verifier_critic_node"
    /\ \E j \in 1..Len(NewMessages) : NewMessages[j].status = "error"
    /\ \E j \in 1..Len(State.messages) : State.messages[j].status = "success"

\* C19: a turn fails only after an LLM call of a node has failed twice: the
\* first failure of a node runs the node once more.
C19_RetryOnce ==
    node = "failed" => failures >= 2

\* the ids of the steps of the plan repair_node returned last
ReplacementIds ==
    { State.plan[i].id : i \in Len(before.plan) + 1 .. Len(State.plan) }

\* C20: the router pass that follows repair dispatches only steps of the
\* replacement plan, and none of them has a successful result already; the
\* tool results recorded before the repair are still in the state.
C20_OnlyReplacementPlan ==
    [][(prev = "repair_node" /\ node = "router") =>
          /\ \A i \in 1..Len(batch') :
                /\ batch'[i].id \in ReplacementIds
                /\ batch'[i].id \notin SucceededIds(State)
          /\ \A j \in 1..Len(before.messages) :
                IsToolMessage(before.messages[j]) =>
                    \E k \in 1..Len(State.messages) : State.messages[k] = before.messages[j]
      ]_vars

-----------------------------------------------------------------------------
(* Claims about one verify pass (VerifierSpec) *)

VerifyRan == prev = "verifier_critic_node"

\* the violations the verify pass that ran last emitted
Emitted == SubSeq(State.violations, Len(before.violations) + 1, Len(State.violations))

\* the successful tool results the pass was given, in the order recorded
SuccessfulResults ==
    LET Succeeded(m) == IsToolMessage(m) /\ m.status = "success"
    IN  SelectSeq(before.messages, Succeeded)

\* the items of the successful results of one tool, in the order recorded
ResultItems(tool) ==
    Flatten([i \in 1..Len(SuccessfulResults) |->
                IF SuccessfulResults[i].name = tool
                THEN SuccessfulResults[i].content.items ELSE <<>>])

\* how many violations of a rule the pass emitted for a subject
EmittedFor(rule, subject) ==
    Cardinality({ i \in 1..Len(Emitted) :
                    Emitted[i].rule = rule /\ Emitted[i].subject = subject })

Nights == IF before.constraints.dates = Nothing THEN 0
          ELSE before.constraints.dates[1].end - before.constraints.dates[1].start

\* sum of all flight prices plus nightly rate x nights of all lodging results
ExpectedTotal ==
    Sum([i \in 1..Len(ResultItems("flights")) |-> ResultItems("flights")[i].price])
    + Sum([i \in 1..Len(ResultItems("lodging")) |->
              ResultItems("lodging")[i].price_per_night * Nights])

\* C13: when the constraint set states a budget ceiling, a verify pass emits
\* exactly one budget violation if the total of flight prices and lodging
\* cost exceeds the ceiling, and none otherwise.
C13_BudgetRule ==
    (VerifyRan /\ before.constraints.budget_usd # Nothing) =>
        Cardinality({ i \in 1..Len(Emitted) : Emitted[i].rule = "budget" })
            = IF ExpectedTotal > before.constraints.budget_usd[1] THEN 1 ELSE 0

Prefers(name) ==
    /\ name \in DOMAIN before.constraints.preferences
    /\ before.constraints.preferences[name] = TRUE

FlightNumbers ==
    { ResultItems("flights")[i].flight_number : i \in 1..Len(ResultItems("flights")) }

\* departs after 22:00 or arrives before 06:00
IsOvernight(f) == f.departure_time > 22 * 60 \/ f.arrival_time < 6 * 60

\* C14: with no_overnight_flights set, a verify pass emits one overnight
\* violation for every flight result that departs after 22:00 or arrives
\* before 06:00, and none for any other flight.
C14_OvernightRule ==
    (VerifyRan /\ Prefers("no_overnight_flights")) =>
        \A number \in FlightNumbers :
            EmittedFor("overnight", number)
                = Cardinality({ i \in 1..Len(ResultItems("flights")) :
                                  /\ ResultItems("flights")[i].flight_number = number
                                  /\ IsOvernight(ResultItems("flights")[i]) })

EventNames ==
    { ResultItems("events")[i].name : i \in 1..Len(ResultItems("events")) }

\* the date an event is scheduled on (EventOption has no field for it)
EventDay(name) == IF name = "Park" THEN 2 ELSE 1

\* the forecast dates whose weather code is a precipitation code
PrecipitationDates ==
    { ResultItems("weather")[i].forecast_date :
        i \in { j \in 1..Len(ResultItems("weather")) :
                  ResultItems("weather")[j].weather_code \in RainCodes } }

\* C15: a verify pass flags an event exactly when the event is not indoor and
\* is scheduled on a forecast date with precipitation.
C15_WeatherRule ==
    VerifyRan =>
        \A name \in EventNames :
            EmittedFor("weather", name)
                = Cardinality({ i \in 1..Len(ResultItems("events")) :
                                  /\ ResultItems("events")[i].name = name
                                  /\ ~ResultItems("events")[i].is_indoor
                                  /\ EventDay(name) \in PrecipitationDates })

\* C16: a verify pass emits a kid-friendly violation for an event result
\* exactly when the kid_friendly preference is set true and the event is
\* marked not kid-friendly; with the preference absent or false it emits none.
C16_PreferenceRule ==
    VerifyRan =>
        \A name \in EventNames :
            EmittedFor("kid_friendly", name)
                = IF Prefers("kid_friendly")
                  THEN Cardinality({ i \in 1..Len(ResultItems("events")) :
                                       /\ ResultItems("events")[i].name = name
                                       /\ ~ResultItems("events")[i].kid_friendly })
                  ELSE 0

C16_Witness ==
    /\ VerifyRan
    /\ Prefers("kid_friendly")
    /\ EmittedFor("kid_friendly", "Park") = 1
    /\ EmittedFor("kid_friendly", "Zoo") = 0
    /\ "Zoo" \in EventNames

RuleRank(rule) ==
    CASE rule = "budget" -> 1
      [] rule = "overnight" -> 2
      [] rule = "weather" -> 3
      [] rule = "kid_friendly" -> 4
      [] OTHER -> 0

RECURSIVE IsSubsequence(_, _)
IsSubsequence(s, t) ==
    IF s = <<>> THEN TRUE
    ELSE IF t = <<>> THEN FALSE
    ELSE IF Head(s) = Head(t) THEN IsSubsequence(Tail(s), Tail(t))
    ELSE IsSubsequence(s, Tail(t))

\* the subjects of the violations of one rule, in the order emitted
EmittedSubjects(rule) ==
    LET OfRule(v) == v.rule = rule
        emitted == SelectSeq(Emitted, OfRule)
    IN  [i \in 1..Len(emitted) |-> emitted[i].subject]

\* the violations of one rule, in the order emitted
EmittedOfRule(rule) ==
    LET OfRule(v) == v.rule = rule
    IN  SelectSeq(Emitted, OfRule)

\* C17: every rule is evaluated in every verify pass (what a rule yields is
\* emitted whatever the other rules yield), the emitted list is in rule order
\* budget, overnight, weather, preference fit, and within a rule in the order
\* the tool results were recorded.
C17_AllRulesInOrder ==
    VerifyRan =>
        /\ \A i, j \in 1..Len(Emitted) :
              i < j => RuleRank(Emitted[i].rule) <= RuleRank(Emitted[j].rule)
        /\ \A i \in 1..Len(Emitted) : RuleRank(Emitted[i].rule) > 0
        /\ IsSubsequence(EmittedSubjects("overnight"),
              [i \in 1..Len(ResultItems("flights")) |-> ResultItems("flights")[i].flight_number])
        /\ IsSubsequence(EmittedSubjects("weather"),
              [i \in 1..Len(ResultItems("events")) |-> ResultItems("events")[i].name])
        /\ IsSubsequence(EmittedSubjects("kid_friendly"),
              [i \in 1..Len(ResultItems("events")) |-> ResultItems("events")[i].name])
        /\ EmittedOfRule("budget")
              = BudgetViolations(before.constraints, before.messages)
        /\ EmittedOfRule("overnight")
              = OvernightViolations(before.constraints, before.messages)
        /\ EmittedOfRule("weather") = WeatherViolations(before.messages)
        /\ EmittedOfRule("kid_friendly")
              = PreferenceViolations(before.constraints, before.messages)

C17_Witness ==
    /\ VerifyRan
    /\ {1, 2, 4} \subseteq { RuleRank(Emitted[i].rule) : i \in 1..Len(Emitted) }
    /\ EmittedSubjects("overnight") = <<"F1", "F3">>

\* C21: turns on one thread are serialized: a request for a thread reads the
\* thread's state only after the last checkpoint write of the turn before it,
\* so the state it read is the state that turn left.
C21_TurnsSerialized ==
    concurrent # NoConcurrent =>
        /\ concurrent.during \in {"END", "failed"}
        /\ node = "END" => concurrent.existing = State

\* C22: when verify is about to run for a batch, every step the router
\* dispatched in that batch has its tool result recorded with a terminal
\* status, one result per dispatched call.
C22_BatchTerminalBeforeVerify ==
    (node = "verifier_critic_node" /\ prev = "tool_executor") =>
        /\ Len(NewMessages) = Len(batch)
        /\ \A i \in 1..Len(batch) :
              /\ IsToolMessage(NewMessages[i])
              /\ NewMessages[i].tool_call_id = batch[i].id
              /\ NewMessages[i].name = batch[i].tool
              /\ NewMessages[i].status \in {"success", "error"}

C22_Witness ==
    /\ node = "verifier_critic_node"
    /\ prev = "tool_executor"
    /\ Len(batch) >= 2
    /\ NewMessages[Len(batch)].status = "error"

\* C23: a turn that fails leaves the thread as the last completed turn left
\* it: the constraints, plan, violations and final itinerary a later turn on
\* the thread starts from are those the thread had when the failed turn was
\* submitted.
C23_FailedTurnLeavesNoTrace ==
    (node = "failed" /\ started.itinerary # None) =>
        \A f \in {"constraints", "plan", "violations", "itinerary"} :
            State[f] = started[f]

\* the tools executed in the thread: the names of its tool results
ExecutedTools ==
    { State.messages[i].name : i \in { j \in 1..Len(State.messages) :
                                          IsToolMessage(State.messages[j]) } }

\* C24: the tool-usage summary of the final response has, for every tool
\* executed in the session, one entry whose count is the number of executions
\* of that tool.
C24_ToolUsageComplete ==
    node = "END" =>
        \A tool \in ExecutedTools :
            \E usage \in AgentResponse(State).tools_used :
                /\ usage.name = tool
                /\ usage.count = Cardinality({ j \in 1..Len(State.messages) :
                                                 /\ IsToolMessage(State.messages[j])
                                                 /\ State.messages[j].name = tool })

\* C25: verify changes only the violation list: plan, constraints, messages,
\* tool-call records, citations and decisions are after the verify node what
\* they were before it.
C25_VerifyFrame ==
    prev = "verifier_critic_node" =>
        \A f \in {"plan", "constraints", "messages", "tool_calls", "citations", "decisions"} :
            State[f] = before[f]

\* C26: the batch of one router pass never holds two calls with the same
\* step id.
C26_BatchIdsDistinct ==
    prev = "router" =>
        \A i, j \in 1..Len(batch) : batch[i].id = batch[j].id => i = j

\* C27: a step id that has a recorded tool result in the thread, successful
\* or failed, is not dispatched again.
C27_NoRedispatch ==
    prev = "router" =>
        \A i \in 1..Len(batch) :
            ~\E j \in 1..Len(before.messages) :
                /\ IsToolMessage(before.messages[j])
                /\ before.messages[j].tool_call_id = batch[i].id

\* the steps a plan channel holds, as a set
StepsOf(state) == { state.plan[i] : i \in 1..Len(state.plan) }

\* C28: in a refinement turn neither constraint extraction nor the plan node
\* is visited, the turn starts refinement_node then verifier_critic_node, no
\* tool call is dispatched before a verify pass has run, and the steps of the
\* plan change only at repair_node.
C28_RefinementTurn ==
    /\ [](request.is_refinement =>
            /\ node \notin {"constraint_extraction_node", "plan_node"}
            /\ (prev = "START" /\ node # "failed") => node = "refinement_node"
            /\ (prev = "refinement_node" /\ node # "failed") =>
                   node = "verifier_critic_node"
            /\ prev \in {"router", "tool_executor"} => verifies >= 1)
    /\ [][(request.is_refinement /\ turn' = turn /\ StepsOf(State') # StepsOf(State)) =>
              (node = "repair_node" /\ prev' = "repair_node")]_vars

C28_Witness ==
    /\ request.is_refinement
    /\ node = "END"
    /\ repairs >= 1
    /\ executed >= 1
    /\ StepsOf(State) # StepsOf(started)

\* C29: a refresh token is single-use: of the refresh_access_token calls that
\* present the same token, concurrent ones included, at most one issues new
\* tokens.
C29_SingleUse ==
    \A c1, c2 \in CallIds :
        (/\ auth_calls[c1].pc = "issued"
         /\ auth_calls[c2].pc = "issued"
         /\ auth_calls[c1].jti = auth_calls[c2].jti) => c1 = c2

\* C30: a refresh_access_token call that presents an already revoked token is
\* rejected and leaves every refresh token of the token's user revoked.
C30_RevokedTokenRevokesAll ==
    [][\A c \in CallIds :
          (/\ auth_calls[c] = IdleCall
           /\ auth_calls'[c].pc # "idle"
           /\ auth_calls'[c].was_revoked) =>
              /\ auth_calls'[c].pc = "rejected"
              /\ \A j \in Jtis :
                    (refresh_tokens'[j] # NoRow
                     /\ refresh_tokens'[j].user_id = auth_calls'[c].user_id) =>
                        refresh_tokens'[j].is_revoked]_vars

====
